---- MODULE Spec2Model ----
(***************************************************************************)
(* The multi-contract test runner (dapp/src/multi_runner.rs) driving the   *)
(* sputnik EVM adapter (evm-adapters/src/sputnik/evm.rs).                  *)
(*                                                                         *)
(* The adapter owns an in-memory EVM state; the builder derives one        *)
(* address per compiled contract and installs the runtime code; test()     *)
(* dispatches one contract runner per test contract on the same adapter.   *)
(***************************************************************************)
EXTENDS Integers, Sequences, FiniteSets, TLC

(***************************************************************************)
(* Bounds of the exploration.                                              *)
(***************************************************************************)
\* direct adapter operations a caller performs before handing the adapter over
MaxOps == 5
\* test() calls made on one runner
MaxTests == 2

(***************************************************************************)
(* Bytes, names and hashing.                                               *)
(***************************************************************************)
Min(a, b) == IF a < b THEN a ELSE b

\* the element of a singleton: Only({e}) is the value of e, computed once
Only(S) == CHOOSE x \in S : TRUE

RECURSIVE Fold(_)
\* a byte string read as a number, most significant byte first
Fold(bytes) ==
    IF bytes = <<>> THEN 1
    ELSE Fold(SubSeq(bytes, 1, Len(bytes) - 1)) * 11 + bytes[Len(bytes)] + 1

\* keccak256: a 32-byte digest of a byte string.  The digest is a fixed
\* mixing of the input, injective on the byte strings of the catalogue.
Keccak256(bytes) ==
    [i \in 1..32 |-> ((Fold(bytes) \div (i * i)) + 7 * i + Len(bytes)) % 256]

\* Address::from_slice
AddressFromSlice(slice) == slice

\* Address::zero()
ZeroAddr == [i \in 1..20 |-> 0]

\* the address the adapter's own tests deploy at: 0x1000...00
TestAddr == [i \in 1..20 |-> IF i = 1 THEN 16 ELSE 0]

\* str::starts_with on names held as token sequences
StartsWith(name, prefix) ==
    /\ Len(name) >= Len(prefix)
    /\ SubSeq(name, 1, Len(prefix)) = prefix

(***************************************************************************)
(* The interpreter behind the adapter.  Runtime code is a dispatch table:  *)
(* byte k of the code is the behaviour of the function with selector k.    *)
(***************************************************************************)
OP_STOP == 0      \* succeed, no return data
OP_REVERT == 1    \* revert with Error(string) data
OP_INC == 2       \* increment the contract storage slot, succeed
OP_REQZ == 3      \* require(slot == 0)
OP_INVALID == 4   \* invalid opcode: an error that burns all the call's gas
OP_PROP == 5      \* require(arg != Magic)
OP_RET == 6       \* succeed returning one word
OP_BARE == 7      \* revert with no data

Magic == 2
ErrorSelector == "08c379a0"
RevertData == <<ErrorSelector, "not equal to hi">>

BaseTxCost == 21000
NonZeroByteCost == 16
ZeroByteCost == 4
ExecCost == 100

Succeed(why) == [kind |-> "Succeed", why |-> why]
Revert(why) == [kind |-> "Revert", why |-> why]
Error(why) == [kind |-> "Error", why |-> why]
Fatal(why) == [kind |-> "Fatal", why |-> why]

\* the return reasons of the model: ExitReason, a few of each variant
ExitReasons ==
    {Succeed("Stopped"), Succeed("Returned"), Revert("Reverted"),
     Error("OutOfGas"), Error("OutOfFund"), Error("InvalidCode"),
     Fatal("NotSupported")}

RECURSIVE CalldataCost(_)
\* the intrinsic per-byte cost of the calldata
CalldataCost(data) ==
    IF data = <<>> THEN 0
    ELSE (IF data[1] # 0 THEN NonZeroByteCost ELSE ZeroByteCost)
         + CalldataCost(Tail(data))

\* One run of the code at the callee: exit reason, return data, new slot, gas used.
Execute(st, to, data, gas) ==
    LET code == st.code[to]
        sel == IF data = <<>> THEN 0 ELSE data[1]
        arg == IF Len(data) >= 2 THEN data[2] ELSE 0
        slot == st.storage[to]
        out(status, ret, newslot) ==
            [status |-> status, ret |-> ret, slot |-> newslot, used |-> ExecCost]
    IN  IF code = <<>>
        THEN [status |-> Succeed("Stopped"), ret |-> <<>>, slot |-> slot, used |-> 0]
        ELSE IF gas < ExecCost
        THEN [status |-> Error("OutOfGas"), ret |-> <<>>, slot |-> slot, used |-> gas]
        ELSE IF sel < 1 \/ sel > Len(code)
        THEN out(Revert("Reverted"), <<>>, slot)
        ELSE CASE code[sel] = OP_STOP -> out(Succeed("Stopped"), <<>>, slot)
               [] code[sel] = OP_REVERT -> out(Revert("Reverted"), RevertData, slot)
               [] code[sel] = OP_INC -> out(Succeed("Stopped"), <<>>, slot + 1)
               [] code[sel] = OP_REQZ ->
                    IF slot = 0 THEN out(Succeed("Stopped"), <<>>, slot)
                    ELSE out(Revert("Reverted"), RevertData, slot)
               [] code[sel] = OP_PROP ->
                    IF arg # Magic THEN out(Succeed("Stopped"), <<>>, slot)
                    ELSE out(Revert("Reverted"), RevertData, slot)
               [] code[sel] = OP_RET -> out(Succeed("Returned"), <<"01">>, slot)
               [] code[sel] = OP_BARE -> out(Revert("Reverted"), <<>>, slot)
               [] OTHER ->
                    [status |-> Error("InvalidCode"), ret |-> <<>>,
                     slot |-> slot, used |-> gas]

\* StackExecutor::transact_call: charge the intrinsic cost, bump the caller
\* nonce, run the call in a substate with min(gas_limit, gas left), then
\* commit (success), roll back (revert) or discard with all its gas (error).
TransactCall(st, from, to, value, data, gas_limit) ==
    LET cost == BaseTxCost + CalldataCost(data)
    IN  IF st.gas < cost
        THEN [status |-> Error("OutOfGas"), ret |-> <<>>,
              st |-> [st EXCEPT !.gas = 0]]
        ELSE
        LET s1 == [st EXCEPT !.gas = @ - cost, !.nonce[from] = @ + 1]
            lim == Min(gas_limit, st.gas - cost)
            s2 == [s1 EXCEPT !.gas = @ - lim]
        IN  IF st.balance[from] < value
            THEN [status |-> Error("OutOfFund"), ret |-> <<>>, st |-> s1]
            ELSE
            LET s3 == [s2 EXCEPT !.balance[from] = @ - value,
                                 !.balance[to] = @ + value]
            IN  Only({ CASE r.status.kind = "Succeed" ->
                              [status |-> r.status, ret |-> r.ret,
                               st |-> [s3 EXCEPT !.storage[to] = r.slot,
                                                 !.gas = @ + (lim - r.used)]]
                         [] r.status.kind = "Revert" ->
                              [status |-> r.status, ret |-> r.ret,
                               st |-> [s2 EXCEPT !.gas = @ + (lim - r.used)]]
                         [] OTHER ->
                              [status |-> r.status, ret |-> <<>>, st |-> s2]
                       : r \in {Execute(s3, to, data, lim)} })

(***************************************************************************)
(* Compiled contracts.  A function descriptor is a name (a sequence of     *)
(* tokens), the number of inputs and the number of output words.           *)
(***************************************************************************)
Fn(name, inputs, outputs) == [name |-> name, inputs |-> inputs, outputs |-> outputs]

F_setUp == Fn(<<"set", "Up">>, 0, 0)
F_testGreeting == Fn(<<"test", "Greeting">>, 0, 0)
F_testSetGreeting == Fn(<<"test", "Set", "Greeting">>, 0, 0)
F_testGm == Fn(<<"test", "Gm">>, 0, 0)
F_testFailX == Fn(<<"test", "Fail", "X">>, 0, 0)
F_testProp == Fn(<<"test", "Prop">>, 1, 0)
F_greet == Fn(<<"greet">>, 0, 1)
F_testWord == Fn(<<"test", "Word">>, 0, 1)

\* the ABI selector of a function: the position of its entry in the code
Selector(name) ==
    CASE name = <<"set", "Up">> -> 1
      [] name = <<"test", "Greeting">> -> 2
      [] name = <<"test", "Set", "Greeting">> -> 3
      [] name = <<"test", "Gm">> -> 4
      [] name = <<"test", "Fail", "X">> -> 5
      [] name = <<"test", "Prop">> -> 6
      [] name = <<"greet">> -> 7
      [] name = <<"test", "Word">> -> 2
      [] OTHER -> 8

Compiled(abi, bytecode, runtime) ==
    [abi |-> abi, bytecode |-> bytecode, runtime_bytecode |-> runtime]

\* setUp stops; testGreeting requires the slot to be clear; testSetGreeting sets it
C_GreeterTest ==
    Compiled(<<F_setUp, F_testGreeting, F_testSetGreeting>>,
             <<OP_RET>>, <<OP_STOP, OP_REQZ, OP_INC>>)
C_GmTest ==
    Compiled(<<F_testGm>>, <<OP_RET, OP_RET>>,
             <<OP_BARE, OP_BARE, OP_BARE, OP_STOP>>)
\* the runtime code of GmTest behind another constructor
C_GmTwin ==
    Compiled(<<F_testGm>>, <<OP_RET, OP_INC>>,
             <<OP_BARE, OP_BARE, OP_BARE, OP_STOP>>)
\* no function named test*
C_Greeter ==
    Compiled(<<F_greet>>, <<OP_STOP>>,
             <<OP_BARE, OP_BARE, OP_BARE, OP_BARE, OP_BARE, OP_BARE, OP_RET>>)
\* testFailX reverts, testProp(x) requires x != Magic
C_FooTest ==
    Compiled(<<F_testFailX, F_testProp>>, <<OP_RET, OP_STOP>>,
             <<OP_BARE, OP_BARE, OP_BARE, OP_BARE, OP_REVERT, OP_PROP>>)
\* testWord is declared to return a word and returns none
C_BadTest ==
    Compiled(<<F_testWord, F_testGm>>, <<OP_STOP, OP_STOP>>,
             <<OP_BARE, OP_STOP, OP_BARE, OP_STOP>>)
\* testGreeting hits an invalid opcode, testFailX does not revert
C_ErrTest ==
    Compiled(<<F_testFailX, F_testGreeting>>, <<OP_STOP, OP_RET>>,
             <<OP_BARE, OP_INVALID, OP_BARE, OP_BARE, OP_STOP>>)
\* setUp reverts
C_DownTest ==
    Compiled(<<F_setUp, F_testGm>>, <<OP_INC>>,
             <<OP_REVERT, OP_BARE, OP_BARE, OP_STOP>>)

\* the compiler outputs (name -> CompiledContract) a run may start from
Corpora ==
    { [n \in {"GreeterTest", "GmTest"} |->
          IF n = "GreeterTest" THEN C_GreeterTest ELSE C_GmTest],
      [n \in {"FooTest", "Greeter"} |->
          IF n = "FooTest" THEN C_FooTest ELSE C_Greeter],
      [n \in {"BadTest", "GreeterTest"} |->
          IF n = "BadTest" THEN C_BadTest ELSE C_GreeterTest],
      [n \in {"ErrTest", "GmTest", "GmTwin"} |->
          IF n = "ErrTest" THEN C_ErrTest
          ELSE IF n = "GmTest" THEN C_GmTest ELSE C_GmTwin],
      [n \in {"DownTest", "FooTest"} |->
          IF n = "DownTest" THEN C_DownTest ELSE C_FooTest] }

Catalogue ==
    {C_GreeterTest, C_GmTest, C_GmTwin, C_Greeter, C_FooTest, C_BadTest, C_ErrTest,
     C_DownTest}

\* a slip of DeriveAddress: the last 20 bytes of the digest, as for account addresses
DeriveAddress_last20(compiled) ==
    AddressFromSlice(SubSeq(Keccak256(compiled.runtime_bytecode), 13, 32))

\* a slip of DeriveAddress: the digest of the creation code
DeriveAddress_creation(compiled) ==
    AddressFromSlice(SubSeq(Keccak256(compiled.bytecode), 1, 20))

\* multi_runner.rs:52: the fake address of a compiled contract
DeriveAddress(compiled) ==
    AddressFromSlice(SubSeq(Keccak256(compiled.runtime_bytecode), 1, 20))

AddrPool == {ZeroAddr, TestAddr} \cup {DeriveAddress(c) : c \in Catalogue}

(***************************************************************************)
(* The adapter: Executor { executor, gas_limit }.  The executor state S    *)
(* holds the accounts and the gasometer.                                   *)
(***************************************************************************)
\* Executor::new over an empty backend
NewExecutor(gas_limit) ==
    [gas_limit |-> gas_limit,
     state |-> [code |-> [a \in AddrPool |-> <<>>],
                storage |-> [a \in AddrPool |-> 0],
                nonce |-> [a \in AddrPool |-> 0],
                balance |-> [a \in AddrPool |-> 0],
                gas |-> gas_limit]]

\* a slip of is_success: every reason that is not a revert counts as a success
is_success_not_fail(reason) == reason.kind # "Revert"

is_success(reason) == reason.kind = "Succeed"

\* a slip of is_fail: every reason that is not a success counts as a revert
is_fail_not_success(reason) == reason.kind # "Succeed"

is_fail(reason) == reason.kind = "Revert"

\* Executor::state
State(evm) == evm.state

\* a slip of Clone: the new executor is built over the original's own state
Clone_shared(evm) ==
    [gas_limit |-> evm.gas_limit, state |-> State(evm), aliased |-> TRUE]

\* impl Clone for Executor: gas_limit is copied and a new StackExecutor is
\* built over state().clone().  `aliased` says whether the two executors
\* write to one state; a clone of the state is a state of its own.
Clone(evm) ==
    [gas_limit |-> evm.gas_limit, state |-> State(evm), aliased |-> FALSE]

\* what a write to one executor does to the other one
Follow(other, written, aliased) ==
    IF aliased THEN [other EXCEPT !.state = written.state] ELSE other

\* a slip of reset: nothing is restored
reset_nothing(evm, state) == evm

\* a slip of reset: the accounts are restored, the gasometer is kept
reset_keep_gas(evm, state) ==
    [evm EXCEPT !.state = [state EXCEPT !.gas = evm.state.gas]]

\* Executor::reset: the state is overwritten by the one given
reset(evm, state) == [evm EXCEPT !.state = state]

\* MemoryStackState::set_code
SetCode(state, address, bytecode) == [state EXCEPT !.code[address] = bytecode]

RECURSIVE InstallAll(_, _)
\* the for_each of initialize_contracts over the pairs, in order
InstallAll(state, pairs) ==
    IF pairs = <<>> THEN state
    ELSE InstallAll(SetCode(state, pairs[1][1], pairs[1][2]), Tail(pairs))

\* a slip of initialize_contracts: only the first pair is installed
initialize_first(evm, pairs) ==
    IF pairs = <<>> THEN evm
    ELSE [evm EXCEPT !.state = SetCode(evm.state, pairs[1][1], pairs[1][2])]

\* Executor::initialize_contracts
initialize_contracts(evm, pairs) ==
    [evm EXCEPT !.state = InstallAll(evm.state, pairs)]

\* dapp_utils::remove_extra_costs: the gas delta less the intrinsic cost
remove_extra_costs(gas, calldata) == gas - CalldataCost(calldata) - BaseTxCost

\* a slip of call_raw: a revert is reported as a host error, its data dropped
call_raw_revert_is_err(evm, from, to, calldata, value, is_static) ==
    Only({ IF r.status.kind = "Revert"
           THEN [tag |-> "Err", bytes |-> <<>>, reason |-> r.status, gas |-> 0,
                 evm |-> [evm EXCEPT !.state = r.st]]
           ELSE IF remove_extra_costs(evm.state.gas - r.st.gas, calldata) < 0
           THEN [tag |-> "Panic", bytes |-> <<>>, reason |-> r.status, gas |-> 0,
                 evm |-> [evm EXCEPT !.state = r.st]]
           ELSE [tag |-> "Ok", bytes |-> r.ret, reason |-> r.status,
                 gas |-> remove_extra_costs(evm.state.gas - r.st.gas, calldata),
                 evm |-> [evm EXCEPT !.state = r.st]]
         : r \in {TransactCall(evm.state, from, to, value, calldata, evm.gas_limit)} })

\* a slip of call_raw: a static call leaves the storage as it was
call_raw_static_reads(evm, from, to, calldata, value, is_static) ==
    Only({ IF remove_extra_costs(evm.state.gas - r.st.gas, calldata) < 0
           THEN [tag |-> "Panic", bytes |-> <<>>, reason |-> r.status, gas |-> 0,
                 evm |-> [evm EXCEPT !.state = r.st]]
           ELSE [tag |-> "Ok", bytes |-> r.ret, reason |-> r.status,
                 gas |-> remove_extra_costs(evm.state.gas - r.st.gas, calldata),
                 evm |-> [evm EXCEPT !.state =
                             IF is_static
                             THEN [r.st EXCEPT !.storage = evm.state.storage]
                             ELSE r.st]]
         : r \in {TransactCall(evm.state, from, to, value, calldata, evm.gas_limit)} })

\* Executor::call_raw.  The U256 subtraction of remove_extra_costs panics
\* when it would go below zero; otherwise the result is always Ok.
call_raw(evm, from, to, calldata, value, is_static) ==
    Only({ IF remove_extra_costs(evm.state.gas - r.st.gas, calldata) < 0
           THEN [tag |-> "Panic", bytes |-> <<>>, reason |-> r.status, gas |-> 0,
                 evm |-> [evm EXCEPT !.state = r.st]]
           ELSE [tag |-> "Ok", bytes |-> r.ret, reason |-> r.status,
                 gas |-> remove_extra_costs(evm.state.gas - r.st.gas, calldata),
                 evm |-> [evm EXCEPT !.state = r.st]]
         : r \in {TransactCall(evm.state, from, to, value, calldata, evm.gas_limit)} })

(***************************************************************************)
(* The contract runner and the fuzz driver (section 4.D and 4.F).          *)
(* Options are sequences: <<>> is None, <<v>> is Some(v).                  *)
(***************************************************************************)
\* values a fuzzed argument ranges over: 0 .. ArgRange - 1
ArgRange == 4

\* revert-reason decoding: Error(string) data gives its string, else raw hex
DecodeRevert(bytes) ==
    IF Len(bytes) >= 2 /\ bytes[1] = ErrorSelector THEN bytes[2] ELSE "0x"

\* Regex::is_match for the pattern lit.* : lit occurs somewhere in the name
is_match(pattern, name) ==
    \E i \in 0..(Len(name) - Len(pattern)) :
        SubSeq(name, i + 1, i + Len(pattern)) = pattern

IsTestFn(func) == StartsWith(func.name, <<"test">>)

ShouldFail(func) == StartsWith(func.name, <<"test", "Fail">>)

\* Evm::call: encode, call_raw, and decode the return data of a success
call(evm, from, to, func, args, value) ==
    Only({ IF r.tag = "Ok" /\ is_success(r.reason) /\ Len(r.bytes) < func.outputs
           THEN [r EXCEPT !.tag = "Err"]
           ELSE r
         : r \in {call_raw(evm, from, to, <<Selector(func.name)>> \o args, value, FALSE)} })

\* the pass predicate of a test applied to the reason of its call
Passes(func, reason) ==
    IF ShouldFail(func) THEN is_fail(reason) ELSE is_success(reason)

TestResult(success, reason, gas_used, counterexample, skipped, exit) ==
    [success |-> success, reason |-> reason, gas_used |-> gas_used,
     counterexample |-> counterexample, skipped |-> skipped, exit |-> exit]

NotRun == [kind |-> "NotRun", why |-> "NotRun"]

\* one unit test on the adapter as it stands
run_test(evm, address, func) ==
    Only({ [tag |-> r.tag, evm |-> r.evm,
            result |-> TestResult(Passes(func, r.reason),
                                  IF is_fail(r.reason)
                                  THEN <<DecodeRevert(r.bytes)>> ELSE <<>>,
                                  r.gas, <<>>, FALSE, r.reason)]
         : r \in {call(evm, ZeroAddr, address, func, <<>>, 0)} })

\* the input of trial k drawn from the seed
Gen(seed, k) == (3 * seed + 5 * k) % ArgRange

\* one fuzz trial with input x, on a clone of the adapter
Trial(evm, address, func, x) == call(evm, ZeroAddr, address, func, <<x>>, 0)

\* the outcome of the trial on each input
Trials(evm, address, func) ==
    [x \in 0..(ArgRange - 1) |-> Trial(evm, address, func, x)]

\* shrinking: the least input at or below x among those that fail
Shrink(failing, x) ==
    CHOOSE m \in failing : m <= x /\ \A n \in failing : m <= n

\* one fuzz test: the trials in turn, shrinking the first failure
run_fuzz_test(evm, address, func, fuzzer) ==
    Only({
        LET bad == {k \in 1..fuzzer.cases :
                       \/ out[Gen(fuzzer.seed, k)].tag # "Ok"
                       \/ ~Passes(func, out[Gen(fuzzer.seed, k)].reason)}
            first == CHOOSE k \in bad : \A j \in bad : k <= j
            last == out[Gen(fuzzer.seed, fuzzer.cases)]
            found == out[Gen(fuzzer.seed, first)]
            failing == {x \in DOMAIN out :
                           out[x].tag = "Ok" /\ ~Passes(func, out[x].reason)}
            min == out[Shrink(failing, Gen(fuzzer.seed, first))]
        IN  IF bad = {}
            THEN [tag |-> "Ok", evm |-> evm,
                  result |-> TestResult(TRUE, <<>>, last.gas, <<>>, FALSE,
                                        last.reason)]
            ELSE IF found.tag # "Ok"
            THEN [tag |-> found.tag, evm |-> evm,
                  result |-> TestResult(FALSE, <<>>, 0, <<>>, FALSE, NotRun)]
            ELSE [tag |-> "Ok", evm |-> evm,
                  result |-> TestResult(FALSE,
                                        IF is_fail(min.reason)
                                        THEN <<DecodeRevert(min.bytes)>> ELSE <<>>,
                                        min.gas,
                                        <<Shrink(failing, Gen(fuzzer.seed, first))>>,
                                        FALSE, min.reason)]
        : out \in {Trials(evm, address, func)} })

\* one selected test, from the per-test baseline
RunOne(evm, address, func, baseline, fuzzer) ==
    IF func.inputs = 0 THEN run_test(reset(evm, baseline), address, func)
    ELSE IF fuzzer = <<>>
    THEN [tag |-> "Ok", evm |-> reset(evm, baseline),
          result |-> TestResult(TRUE, <<>>, 0, <<>>, TRUE, NotRun)]
    ELSE run_fuzz_test(reset(evm, baseline), address, func, fuzzer[1])

RECURSIVE RunAll(_, _, _, _, _, _)
\* the selected tests in the given order; acc is the {function -> TestResult}
\* collected so far, as a set of <<name, result>> pairs
RunAll(evm, address, tests, baseline, fuzzer, acc) ==
    IF tests = <<>> THEN [tag |-> "Ok", evm |-> evm, map |-> acc]
    ELSE Only({ IF r.tag # "Ok" THEN [tag |-> r.tag, evm |-> r.evm, map |-> {}]
                ELSE RunAll(r.evm, address, Tail(tests), baseline, fuzzer,
                            acc \cup {<<tests[1].name, r.result>>})
              : r \in {RunOne(evm, address, tests[1], baseline, fuzzer)} })

\* SelectSeq over the ABI: the test functions the pattern retains, in ABI order
SelectedTests(contract, pattern) ==
    SelectSeq(contract.abi, LAMBDA f : IsTestFn(f) /\ is_match(pattern, f.name))

HasSetUp(contract) == \E i \in 1..Len(contract.abi) : contract.abi[i] = F_setUp

\* the setUp call, when the ABI declares one
SetUp(evm, contract, address) ==
    IF HasSetUp(contract)
    THEN call(evm, ZeroAddr, address, F_setUp, <<>>, 0)
    ELSE [tag |-> "Ok", bytes |-> <<>>, reason |-> Succeed("Stopped"),
          gas |-> 0, evm |-> evm]

\* the lifecycle of one contract with its selected tests run in the given order
RunTestsInOrder(evm, contract, address, order, fuzzer) ==
    Only({ IF s.tag # "Ok" THEN [tag |-> s.tag, evm |-> s.evm, map |-> {}]
           ELSE IF ~is_success(s.reason)
           THEN [tag |-> "Ok", evm |-> s.evm,
                 map |-> {<<order[i].name,
                            TestResult(FALSE, <<"setUp reverted">>, 0, <<>>,
                                       FALSE, NotRun)>>
                          : i \in 1..Len(order)}]
           ELSE RunAll(s.evm, address, order, State(s.evm), fuzzer, {})
         : s \in {SetUp(evm, contract, address)} })

\* ContractRunner::run_tests
ContractRunner_run_tests(evm, contract, address, pattern, fuzzer) ==
    RunTestsInOrder(evm, contract, address, SelectedTests(contract, pattern), fuzzer)

(***************************************************************************)
(* The multi-contract runner.  A map is a function on its key set; the     *)
(* empty map is <<>>.                                                      *)
(***************************************************************************)
Perms(S) ==
    {p \in [1..Cardinality(S) -> S] : \A i, j \in DOMAIN p : p[i] = p[j] => i = j}

\* multi_runner.rs:50-55: the lazily mapped (address, runtime code) pairs, in
\* the iteration order of the contracts map
init_state(contracts, order) ==
    [i \in 1..Len(order) |->
        <<DeriveAddress(contracts[order[i]]), contracts[order[i]].runtime_bytecode>>]

\* a slip of the adapter: the last item of the iterator is never pulled
Consumed_short(n) == IF n = 0 THEN 0 ELSE n - 1

\* how many items of an iterator of length n initialize_contracts pulls
Consumed(n) == n

\* the addresses recorded while the adapter pulls the pairs
RecordedAddresses(contracts, order) ==
    [n \in {order[i] : i \in 1..Consumed(Len(order))} |-> DeriveAddress(contracts[n])]

\* multi_runner.rs:121: the contract has at least one test function
HasTestFn(contract) ==
    \E i \in 1..Len(contract.abi) : StartsWith(contract.abi[i].name, <<"test">>)

\* multi_runner.rs:129-131
Lookup(addresses, name) ==
    IF name \in DOMAIN addresses THEN <<addresses[name]>> ELSE <<>>

\* MultiContractRunner::run_tests: a contract runner on the shared adapter
run_tests(evm, name, contract, address, pattern, fuzzer) ==
    ContractRunner_run_tests(evm, contract, address, pattern, fuzzer)

\* the closure of multi_runner.rs:128-135 for one contract
DispatchOne(evm, addresses, fuzzer, name, contract, pattern) ==
    IF Lookup(addresses, name) = <<>>
    THEN [name |-> name, tag |-> "Err", err |-> "MissingAddress",
          evm |-> evm, map |-> {}, built |-> FALSE]
    ELSE Only({ [name |-> name, tag |-> r.tag,
                 err |-> IF r.tag = "Err" THEN "AbiError" ELSE "",
                 evm |-> r.evm, map |-> r.map, built |-> TRUE]
              : r \in {run_tests(evm, name, contract, Lookup(addresses, name)[1],
                                 pattern, fuzzer)} })

RECURSIVE Dispatch(_, _, _, _, _, _, _)
\* the iterator chain driven by collect: every test contract in the given
\* order, one after another on the same adapter; runs is what the closure
\* returned for each
Dispatch(evm, contracts, addresses, fuzzer, pattern, order, runs) ==
    IF order = <<>> THEN [tag |-> "Ok", evm |-> evm, runs |-> runs]
    ELSE IF ~HasTestFn(contracts[order[1]])
    THEN Dispatch(evm, contracts, addresses, fuzzer, pattern, Tail(order), runs)
    ELSE Only({ IF d.tag = "Panic"
                THEN [tag |-> "Panic", evm |-> d.evm, runs |-> runs]
                ELSE Dispatch(d.evm, contracts, addresses, fuzzer, pattern,
                              Tail(order),
                              Append(runs, [name |-> d.name, tag |-> d.tag,
                                            err |-> d.err, map |-> d.map,
                                            built |-> d.built]))
              : d \in {DispatchOne(evm, addresses, fuzzer, order[1],
                                   contracts[order[1]], pattern)} })

\* multi_runner.rs:136: filter_map(|x| x.ok())
KeepOk(run) == run.tag = "Ok"

\* a slip of the filter: empty result sets are kept
KeepResults_all(res) == TRUE

\* multi_runner.rs:137: contracts with an empty result set are dropped
KeepResults(res) == res # {}

\* multi_runner.rs:138: collect into {contract -> {function -> TestResult}}
Collect(runs) ==
    {<<runs[i].name, runs[i].map>> :
        i \in {j \in 1..Len(runs) : KeepOk(runs[j]) /\ KeepResults(runs[j].map)}}

\* multi_runner.rs:143: the value test() returns
TestReturn(runs) == [ok |-> TRUE, results |-> Collect(runs), err |-> ""]

\* a slip of the write-back: the runner keeps the emptied map
Restore_none(taken) == <<>>

\* multi_runner.rs:140-141: the taken maps are written back
Restore(taken) == taken

(***************************************************************************)
(* State.                                                                  *)
(***************************************************************************)
VARIABLES
    phase,      \* "adapter": a caller drives the adapter directly;
                \* "builder": the adapter is about to be handed to build;
                \* "runner": built; "aborted": a panic unwound the process
    evm,        \* the Executor
    contracts,  \* name -> CompiledContract (the compiler output, then the runner field)
    addresses,  \* name -> Address
    fuzzer,     \* Option<TestRunner>: <<>> or <<[seed, cases]>>
    snap,       \* a state the caller cloned from state(): <<>> or <<S>>
    opsDone,    \* direct adapter operations so far
    testsDone,  \* test() calls so far
    lastCall,   \* the last direct call_raw: arguments, state before, outcome
    lastInit,   \* the last direct initialize_contracts: pairs, state before
    lastReset,  \* whether the latest adapter operation was a reset, and to what
    lastBuild,  \* the pairs build submitted to initialize_contracts
    lastTest,   \* the last test() call: arguments, maps before, outcome
    twin,       \* a clone of the Executor: <<>> or <<Executor>>
    twinOps     \* operations on the clone so far, the cloning included

vars == <<phase, evm, contracts, addresses, fuzzer, snap, opsDone, testsDone,
          lastCall, lastInit, lastReset, lastBuild, lastTest, twin, twinOps>>

\* the gas limit of the runner tests (multi_runner.rs:209)
TestGasLimit == 12500000
\* a limit two calls exhaust
TightGasLimit == 42200
GasLimits == {TestGasLimit, TightGasLimit}

\* trials per fuzz test
FuzzCases == 2
Fuzzers == {<<>>, <<[seed |-> 0, cases |-> FuzzCases]>>,
            <<[seed |-> 1, cases |-> FuzzCases]>>}

\* the regular expressions .*, testGm.* and Greeting.*
Patterns == {<<>>, <<"test", "Gm">>, <<"Greeting">>}

GmAddr == DeriveAddress(C_GmTest)

\* inputs of a direct initialize_contracts
InitInputs ==
    { <<<<TestAddr, C_GreeterTest.runtime_bytecode>>>>,
      <<<<TestAddr, C_ErrTest.runtime_bytecode>>,
        <<TestAddr, C_FooTest.runtime_bytecode>>>>,
      <<<<TestAddr, C_ErrTest.runtime_bytecode>>,
        <<GmAddr, C_GmTest.runtime_bytecode>>>> }

CallArgs(to, calldata, value, is_static) ==
    [from |-> ZeroAddr, to |-> to, calldata |-> calldata, value |-> value,
     is_static |-> is_static]

\* inputs of a direct call_raw
Calls ==
    { CallArgs(TestAddr, <<2>>, 0, FALSE),
      CallArgs(TestAddr, <<3>>, 0, TRUE),
      CallArgs(TestAddr, <<5>>, 0, FALSE),
      CallArgs(TestAddr, <<6, Magic>>, 0, TRUE),
      CallArgs(TestAddr, <<2>>, 1, FALSE) }

NoState == NewExecutor(0).state

NoCall ==
    [done |-> FALSE, args |-> CallArgs(ZeroAddr, <<>>, 0, FALSE),
     pre |-> NoState, tag |-> "", bytes |-> <<>>, reason |-> NotRun,
     gas |-> 0, post |-> NoState, afterReset |-> FALSE, base |-> NoState,
     over |-> NoState]

NoInit == [done |-> FALSE, pairs |-> <<>>, pre |-> NoState, post |-> NoState]

NoReset == [fresh |-> FALSE, to |-> NoState, over |-> NoState]

NoBuild == [done |-> FALSE, submitted |-> {}, pre |-> NoState, post |-> NoState]

NoTest ==
    [called |-> FALSE, returned |-> FALSE, pattern |-> <<>>,
     contracts |-> <<>>, addresses |-> <<>>, ok |-> FALSE, results |-> {},
     runs |-> <<>>, pre |-> NoState]

Init ==
    /\ phase \in {"adapter", "builder"}
    /\ evm \in {NewExecutor(g) : g \in GasLimits}
    /\ contracts \in Corpora
    /\ fuzzer \in Fuzzers
    /\ phase = "adapter" => (fuzzer = <<>> /\ "GmTest" \in DOMAIN contracts
                             /\ "GreeterTest" \in DOMAIN contracts)
    /\ addresses = <<>>
    /\ snap = <<>>
    /\ opsDone = 0
    /\ testsDone = 0
    /\ lastCall = NoCall
    /\ lastInit = NoInit
    /\ lastReset = NoReset
    /\ lastBuild = NoBuild
    /\ lastTest = NoTest
    /\ twin = <<>>
    /\ twinOps = 0

\* the clone after a write to the original
FollowOriginal(t, e) ==
    IF t = <<>> THEN t ELSE <<Follow(t[1], e, t[1].aliased)>>

(***************************************************************************)
(* The caller drives the adapter directly, as the adapter tests do.        *)
(***************************************************************************)
OpInitialize(pairs) ==
    /\ phase = "adapter"
    /\ opsDone < MaxOps
    /\ evm' = initialize_contracts(evm, pairs)
    /\ lastInit' = [done |-> TRUE, pairs |-> pairs, pre |-> State(evm),
                    post |-> State(evm')]
    /\ lastReset' = [lastReset EXCEPT !.fresh = FALSE]
    /\ opsDone' = opsDone + 1
    /\ twin' = FollowOriginal(twin, evm')
    /\ UNCHANGED <<phase, contracts, addresses, fuzzer, snap, testsDone,
                   lastCall, lastBuild, lastTest, twinOps>>

OpCallRaw(c) ==
    /\ phase = "adapter"
    /\ opsDone < MaxOps
    /\ \E r \in {call_raw(evm, c.from, c.to, c.calldata, c.value, c.is_static)} :
           /\ evm' = r.evm
           /\ phase' = IF r.tag = "Panic" THEN "aborted" ELSE phase
           /\ lastCall' = [done |-> TRUE, args |-> c, pre |-> State(evm),
                           tag |-> r.tag, bytes |-> r.bytes, reason |-> r.reason,
                           gas |-> r.gas, post |-> State(r.evm),
                           afterReset |-> lastReset.fresh,
                           base |-> lastReset.to, over |-> lastReset.over]
    /\ lastReset' = [lastReset EXCEPT !.fresh = FALSE]
    /\ opsDone' = opsDone + 1
    /\ twin' = FollowOriginal(twin, evm')
    /\ UNCHANGED <<contracts, addresses, fuzzer, snap, testsDone, lastInit,
                   lastBuild, lastTest, twinOps>>

\* let c = evm.state().clone()
OpCapture ==
    /\ phase = "adapter"
    /\ opsDone < MaxOps
    /\ snap' = <<State(evm)>>
    /\ opsDone' = opsDone + 1
    /\ UNCHANGED <<phase, evm, contracts, addresses, fuzzer, testsDone,
                   lastCall, lastInit, lastReset, lastBuild, lastTest, twin,
                   twinOps>>

\* evm.reset(c)
OpReset ==
    /\ phase = "adapter"
    /\ snap # <<>>
    /\ opsDone < MaxOps
    /\ evm' = reset(evm, snap[1])
    /\ lastReset' = [fresh |-> TRUE, to |-> snap[1], over |-> State(evm)]
    /\ opsDone' = opsDone + 1
    /\ twin' = FollowOriginal(twin, evm')
    /\ UNCHANGED <<phase, contracts, addresses, fuzzer, snap, testsDone,
                   lastCall, lastInit, lastBuild, lastTest, twinOps>>

(***************************************************************************)
(* The builder and the runner.                                             *)
(***************************************************************************)
\* MultiContractRunnerBuilder::build, the contracts map iterated in `order`
Build(order) ==
    /\ phase = "builder"
    /\ LET pairs == init_state(contracts, order)
       IN  /\ evm' = initialize_contracts(evm, pairs)
           /\ lastBuild' = [done |-> TRUE,
                            submitted |-> {pairs[i] : i \in 1..Len(pairs)},
                            pre |-> State(evm), post |-> State(evm')]
    /\ addresses' = RecordedAddresses(contracts, order)
    /\ phase' = "runner"
    /\ UNCHANGED <<contracts, fuzzer, snap, opsDone, testsDone, lastCall,
                   lastInit, lastReset, lastTest, twin, twinOps>>

\* MultiContractRunner::test, the contracts map iterated in the given order.
\* The maps are taken, the contract runners driven, the maps written back.  A
\* panic unwinds out of test() with the maps still taken.
Test(pattern, order) ==
    /\ phase = "runner"
    /\ testsDone < MaxTests
    /\ \E d \in {Dispatch(evm, contracts, addresses, fuzzer, pattern, order, <<>>)} :
           /\ evm' = d.evm
           /\ IF d.tag = "Panic"
              THEN /\ phase' = "aborted"
                   /\ contracts' = <<>>
                   /\ addresses' = <<>>
              ELSE /\ phase' = phase
                   /\ contracts' = Restore(contracts)
                   /\ addresses' = Restore(addresses)
           /\ lastTest' = [called |-> TRUE, returned |-> (d.tag # "Panic"),
                           pattern |-> pattern, contracts |-> contracts,
                           addresses |-> addresses,
                           ok |-> TestReturn(d.runs).ok,
                           results |-> TestReturn(d.runs).results,
                           runs |-> d.runs, pre |-> State(evm)]
    /\ testsDone' = testsDone + 1
    /\ UNCHANGED <<fuzzer, snap, opsDone, lastCall, lastInit, lastReset, lastBuild,
                   twin, twinOps>>

Next ==
    \/ \E pairs \in InitInputs : OpInitialize(pairs)
    \/ \E c \in Calls : OpCallRaw(c)
    \/ OpCapture
    \/ OpReset
    \/ \E order \in Perms(DOMAIN contracts) : Build(order)
    \/ \E pattern \in Patterns, order \in Perms(DOMAIN contracts) :
          Test(pattern, order)

Spec == Init /\ [][Next]_vars

(***************************************************************************)
(* The caller clones the adapter and drives the clone and the original.    *)
(***************************************************************************)
MaxCloneOps == 4

CloneBudget == opsDone + twinOps < MaxCloneOps

\* the original after a write to the clone
FollowClone(e, t) == Follow(e, t, t.aliased)

\* let twin = evm.clone()
OpClone ==
    /\ phase = "adapter"
    /\ twin = <<>>
    /\ CloneBudget
    /\ twin' = <<Clone(evm)>>
    /\ twinOps' = twinOps + 1
    /\ UNCHANGED <<phase, evm, contracts, addresses, fuzzer, snap, opsDone,
                   testsDone, lastCall, lastInit, lastReset, lastBuild, lastTest>>

\* twin.initialize_contracts(pairs)
OpTwinInitialize(pairs) ==
    /\ phase = "adapter"
    /\ twin # <<>>
    /\ CloneBudget
    /\ twin' = <<initialize_contracts(twin[1], pairs)>>
    /\ evm' = FollowClone(evm, twin'[1])
    /\ twinOps' = twinOps + 1
    /\ UNCHANGED <<phase, contracts, addresses, fuzzer, snap, opsDone, testsDone,
                   lastCall, lastInit, lastReset, lastBuild, lastTest>>

\* twin.call_raw(...)
OpTwinCallRaw(c) ==
    /\ phase = "adapter"
    /\ twin # <<>>
    /\ CloneBudget
    /\ \E r \in {call_raw(twin[1], c.from, c.to, c.calldata, c.value, c.is_static)} :
           /\ twin' = <<r.evm>>
           /\ evm' = FollowClone(evm, r.evm)
           /\ phase' = IF r.tag = "Panic" THEN "aborted" ELSE phase
    /\ twinOps' = twinOps + 1
    /\ UNCHANGED <<contracts, addresses, fuzzer, snap, opsDone, testsDone,
                   lastCall, lastInit, lastReset, lastBuild, lastTest>>

\* twin.reset(c), c the state the caller captured from the original
OpTwinReset ==
    /\ phase = "adapter"
    /\ twin # <<>>
    /\ snap # <<>>
    /\ CloneBudget
    /\ twin' = <<reset(twin[1], snap[1])>>
    /\ evm' = FollowClone(evm, twin'[1])
    /\ twinOps' = twinOps + 1
    /\ UNCHANGED <<phase, contracts, addresses, fuzzer, snap, opsDone, testsDone,
                   lastCall, lastInit, lastReset, lastBuild, lastTest>>

InitClone == Init /\ phase = "adapter"

NextClone ==
    \/ \E pairs \in InitInputs : CloneBudget /\ OpInitialize(pairs)
    \/ \E c \in Calls : CloneBudget /\ OpCallRaw(c)
    \/ CloneBudget /\ OpCapture
    \/ CloneBudget /\ OpReset
    \/ OpClone
    \/ \E pairs \in InitInputs : OpTwinInitialize(pairs)
    \/ \E c \in Calls : OpTwinCallRaw(c)
    \/ OpTwinReset

SpecClone == InitClone /\ [][NextClone]_vars

(***************************************************************************)
(* Properties.                                                             *)
(***************************************************************************)
\* the contract runs of the last test() call that returned a result map
OkRuns == {i \in DOMAIN lastTest.runs : lastTest.runs[i].tag = "Ok"}

\* the <<function name, TestResult>> pairs the last test() call produced
Recorded == UNION {lastTest.runs[i].map : i \in OkRuns}

BeginsWithTest(name) == Len(name) >= 1 /\ name[1] = "test"

BeginsWithTestFail(name) == Len(name) >= 2 /\ name[1] = "test" /\ name[2] = "Fail"

\* C1: when the address lookup fails or a contract runner returns Err for
\* some test contract, test() returns an Err and not an Ok result map.
C1_HostErrorsPropagate ==
    (lastTest.returned /\ \E i \in DOMAIN lastTest.runs : lastTest.runs[i].tag = "Err")
        => ~lastTest.ok

\* C2: after build, every compiled contract has its address recorded under its
\* name, the address is the first 20 bytes of keccak256 of its runtime code,
\* and the pairs handed to initialize_contracts are exactly these addresses
\* with these runtime codes.
C2_AddressDeterminism ==
    phase = "runner" =>
        /\ \A n \in DOMAIN contracts :
              /\ n \in DOMAIN addresses
              /\ addresses[n] = SubSeq(Keccak256(contracts[n].runtime_bytecode), 1, 20)
        /\ lastBuild.submitted =
              {<<SubSeq(Keccak256(contracts[n].runtime_bytecode), 1, 20),
                 contracts[n].runtime_bytecode>> : n \in DOMAIN contracts}

\* a build over several contracts with different addresses has happened
C2_Witness ==
    /\ phase = "runner"
    /\ lastBuild.done
    /\ \E n, m \in DOMAIN contracts : addresses[n] # addresses[m]

\* C3: the keys of the map test() returns are exactly the contracts that have
\* a function whose name begins with test and whose runner returned a
\* non-empty map; each key maps to the map its runner returned; no runner is
\* constructed for a contract without a test function; no returned contract
\* has an empty result set.
C3_ResultKeys ==
    lastTest.returned =>
        LET runs == lastTest.runs
            HasTest(n) ==
                \E k \in DOMAIN lastTest.contracts[n].abi :
                    BeginsWithTest(lastTest.contracts[n].abi[k].name)
        IN  /\ {p[1] : p \in lastTest.results} =
                   {n \in DOMAIN lastTest.contracts :
                       /\ HasTest(n)
                       /\ \E i \in DOMAIN runs :
                             runs[i].name = n /\ runs[i].tag = "Ok" /\ runs[i].map # {}}
            /\ \A p \in lastTest.results :
                   /\ p[2] # {}
                   /\ \E i \in DOMAIN runs : runs[i].name = p[1] /\ runs[i].map = p[2]
                   /\ \A q \in lastTest.results : q[1] = p[1] => q = p
            /\ \A i \in DOMAIN runs : runs[i].built => HasTest(runs[i].name)

\* a test() call returned some contracts, dropped one whose runner returned an
\* empty map, over a contract set holding a contract without test functions
\* or one whose runner failed
C3_Witness ==
    /\ lastTest.returned
    /\ lastTest.results # {}
    /\ \E i \in DOMAIN lastTest.runs :
          lastTest.runs[i].tag = "Ok" /\ lastTest.runs[i].map = {}
    /\ Len(lastTest.runs) = 2

\* C4: when test() returns, the contracts map and the addresses map are what
\* they were before the call, whatever the pattern and the outcomes of the
\* contract runs; so every test() call dispatches over the full contract set
\* the runner was built with.
C4_MapsRestored ==
    /\ lastTest.returned =>
          /\ contracts = lastTest.contracts
          /\ addresses = lastTest.addresses
    /\ lastTest.called =>
          /\ lastTest.contracts \in Corpora
          /\ DOMAIN lastTest.addresses = DOMAIN lastTest.contracts

\* a second test() call with the narrower pattern testGm.* found its contract
C4_Witness ==
    /\ testsDone = 2
    /\ lastTest.returned
    /\ lastTest.pattern = <<"test", "Gm">>
    /\ \E p \in lastTest.results : p[1] = "GmTest"

\* C5: every executed test named testFail* is recorded as a success exactly
\* when its call reverted, every other executed test* exactly when its call
\* succeeded.
C5_InversionLaw ==
    \A p \in Recorded :
        p[2].exit.kind # "NotRun" =>
            p[2].success = IF BeginsWithTestFail(p[1])
                           THEN p[2].exit.kind = "Revert"
                           ELSE p[2].exit.kind = "Succeed"

\* a testFail* test passed on a revert and another test ran in the same call
C5_Witness ==
    /\ \E p \in Recorded :
          BeginsWithTestFail(p[1]) /\ p[2].success /\ p[2].exit.kind = "Revert"
    /\ \E p \in Recorded :
          ~BeginsWithTestFail(p[1]) /\ p[2].exit.kind # "NotRun"

\* what a contract run shows of its tests: (name, success, reason) of each
Outcome(r) ==
    [tag |-> r.tag, results |-> {<<p[1], p[2].success, p[2].reason>> : p \in r.map}]

\* a sequence rearranged by a permutation of its indices
Permuted(seq, sigma) == [i \in 1..Len(seq) |-> seq[sigma[i]]]

\* C6: from any state the runner can be in, for every test contract, pattern
\* and ordering of the selected tests, the contract run records the same
\* (name, success, reason) for each test as the run in ABI order.
C6_TestIsolation ==
    phase = "runner" =>
        \A n \in DOMAIN contracts, pattern \in Patterns :
            HasTestFn(contracts[n]) =>
                \A tests \in {SelectedTests(contracts[n], pattern)} :
                    \A base \in {Outcome(RunTestsInOrder(evm, contracts[n], addresses[n],
                                                         tests, fuzzer))} :
                        \A sigma \in Perms(1..Len(tests)) :
                            Outcome(RunTestsInOrder(evm, contracts[n], addresses[n],
                                                    Permuted(tests, sigma), fuzzer))
                                = base

\* test() ran GreeterTest: both tests passed, and the slot that testGreeting
\* requires to be clear was left set by testSetGreeting
C6_Witness ==
    /\ lastTest.returned
    /\ \E i \in OkRuns :
          /\ lastTest.runs[i].name = "GreeterTest"
          /\ Cardinality(lastTest.runs[i].map) = 2
          /\ \A p \in lastTest.runs[i].map : p[2].success
    /\ evm.state.storage[addresses["GreeterTest"]] > 0

\* the adapter as build left it
BuiltEvm == [gas_limit |-> evm.gas_limit, state |-> lastBuild.post]

\* C7: the pass/fail outcome and the counterexample test() records for a fuzz
\* test are those of the same fuzz test run with the same fuzzer right after
\* build, whatever contracts and tests ran before it.
C7_FuzzDeterminism ==
    (lastTest.returned /\ fuzzer # <<>>) =>
        \A i \in OkRuns :
            \A k \in DOMAIN lastTest.contracts[lastTest.runs[i].name].abi :
                \A f \in {lastTest.contracts[lastTest.runs[i].name].abi[k]} :
                    \A p \in {q \in lastTest.runs[i].map : q[1] = f.name /\ f.inputs > 0} :
                        \A alone \in {RunTestsInOrder(BuiltEvm,
                                          lastTest.contracts[lastTest.runs[i].name],
                                          lastTest.addresses[lastTest.runs[i].name],
                                          <<f>>, fuzzer)} :
                            /\ alone.tag = "Ok"
                            /\ \A q \in alone.map :
                                  /\ q[2].success = p[2].success
                                  /\ q[2].counterexample = p[2].counterexample

\* C8: call_raw never returns Err, and a call that the interpreter ends with a
\* revert returns Ok with is_fail true, is_success false and the revert data
\* as return bytes.
C8_RevertIsOk ==
    lastCall.done =>
        /\ lastCall.tag # "Err"
        /\ \A vm \in {TransactCall(lastCall.pre, lastCall.args.from, lastCall.args.to,
                                   lastCall.args.value, lastCall.args.calldata,
                                   evm.gas_limit)} :
              vm.status.kind = "Revert" =>
                  /\ lastCall.tag = "Ok"
                  /\ lastCall.reason = vm.status
                  /\ is_fail(lastCall.reason)
                  /\ ~is_success(lastCall.reason)
                  /\ lastCall.bytes = vm.ret

\* a direct call reverted with Error(string) data
C8_Witness ==
    /\ lastCall.done
    /\ lastCall.tag = "Ok"
    /\ lastCall.reason.kind = "Revert"
    /\ lastCall.bytes = RevertData

\* everything initialize_contracts must leave alone: the code of the addresses
\* not supplied, all storage, balances, nonces and the gas counter
C9_Frame ==
    /\ \A a \in AddrPool \ {lastInit.pairs[i][1] : i \in DOMAIN lastInit.pairs} :
          lastInit.post.code[a] = lastInit.pre.code[a]
    /\ lastInit.post.storage = lastInit.pre.storage
    /\ lastInit.post.balance = lastInit.pre.balance
    /\ lastInit.post.nonce = lastInit.pre.nonce
    /\ lastInit.post.gas = lastInit.pre.gas

\* C9 as stated: after initialize_contracts(pairs) every supplied pair
\* resolves to its own code, and nothing else changed.
C9_EveryPairInstalled ==
    lastInit.done =>
        /\ \A i \in DOMAIN lastInit.pairs :
              lastInit.post.code[lastInit.pairs[i][1]] = lastInit.pairs[i][2]
        /\ C9_Frame

\* C9, amended: after initialize_contracts(pairs) every supplied address
\* resolves to the code of the last pair that names it, and nothing else
\* changed.
C9_LastPairInstalled ==
    lastInit.done =>
        /\ \A i \in DOMAIN lastInit.pairs :
              (\A j \in DOMAIN lastInit.pairs :
                    lastInit.pairs[j][1] = lastInit.pairs[i][1] => j <= i)
                  => lastInit.post.code[lastInit.pairs[i][1]] = lastInit.pairs[i][2]
        /\ C9_Frame

\* initialize_contracts ran on an input naming an address twice with
\* different code, on an adapter that already had storage and used gas
C9_Witness ==
    /\ lastInit.done
    /\ \E i, j \in DOMAIN lastInit.pairs :
          /\ i < j
          /\ lastInit.pairs[i][1] = lastInit.pairs[j][1]
          /\ lastInit.pairs[i][2] # lastInit.pairs[j][2]
    /\ lastInit.pre.gas < evm.gas_limit
    /\ \E a \in AddrPool : lastInit.pre.storage[a] > 0

\* C10: right after reset(s) the state is s; and a call_raw made right after
\* reset(c), c a clone of an earlier state, returns the bytes, reason and gas
\* that call_raw returns on the state c.
C10_ResetWholesale ==
    /\ lastReset.fresh => State(evm) = lastReset.to
    /\ (lastCall.done /\ lastCall.afterReset) =>
          \A r \in {call_raw([gas_limit |-> evm.gas_limit, state |-> lastCall.base],
                             lastCall.args.from, lastCall.args.to,
                             lastCall.args.calldata, lastCall.args.value,
                             lastCall.args.is_static)} :
              /\ lastCall.pre = lastCall.base
              /\ lastCall.tag = r.tag
              /\ lastCall.bytes = r.bytes
              /\ lastCall.reason = r.reason
              /\ lastCall.gas = r.gas

\* a call was made right after a reset that undid a change of storage
C10_Witness ==
    /\ lastCall.done
    /\ lastCall.afterReset
    /\ lastCall.over.storage # lastCall.base.storage
    /\ lastCall.over.gas # lastCall.base.gas

\* C11: the step that clones the adapter gives a clone with the gas_limit and
\* the state of the original and leaves the original alone; every later
\* operation on the clone leaves the original unchanged, and every operation
\* on the original leaves the clone unchanged.
C11_CloneIndependent ==
    [][ /\ (twin = <<>> /\ twin' # <<>>) =>
              /\ twin'[1].gas_limit = evm.gas_limit
              /\ State(twin'[1]) = State(evm)
              /\ evm' = evm
        /\ (twin # <<>> /\ twinOps' # twinOps) => evm' = evm
        /\ (twin # <<>> /\ opsDone' # opsDone) => twin' = twin ]_vars

\* the clone and the original were both written after the cloning and differ
\* from each other in code, storage and gas
C11_Witness ==
    /\ twin # <<>>
    /\ twinOps > 1
    /\ opsDone > 1
    /\ State(twin[1]).storage # State(evm).storage
    /\ State(twin[1]).gas # State(evm).gas

\* C12: every call_raw, after any earlier calls on the same adapter, returns
\* (the subtraction of the intrinsic cost does not go below zero and abort the
\* call) and reports a gas_used with 0 <= gas_used <= gas_limit.
C12_GasBounds ==
    lastCall.done =>
        /\ lastCall.tag = "Ok"
        /\ 0 <= lastCall.gas
        /\ lastCall.gas <= evm.gas_limit

\* C13: every test() call returns, having dispatched every contract that has
\* a test function to a contract runner exactly once, whatever the earlier
\* contracts recorded, and every TestResult a runner returned, passing or
\* failing, is in the returned map.
C13_BatchNeverHalts ==
    lastTest.called =>
        /\ lastTest.returned
        /\ \A n \in DOMAIN lastTest.contracts :
              HasTestFn(lastTest.contracts[n]) =>
                  Cardinality({i \in DOMAIN lastTest.runs :
                                  lastTest.runs[i].name = n /\ lastTest.runs[i].built}) = 1
        /\ \A i \in OkRuns : \A p \in lastTest.runs[i].map :
              \E q \in lastTest.results : q[1] = lastTest.runs[i].name /\ p \in q[2]

\* C14: after build, two different contract names have the same recorded
\* address exactly when their runtime bytecodes are equal, and every name,
\* shared address or not, refers to its own runtime code installed at its
\* address.
C14_InjectiveIffDistinctCode ==
    phase = "runner" =>
        /\ \A n, m \in DOMAIN contracts :
              n # m =>
                  ((addresses[n] = addresses[m])
                      <=> (contracts[n].runtime_bytecode = contracts[m].runtime_bytecode))
        /\ \A n \in DOMAIN contracts :
              State(evm).code[addresses[n]] = contracts[n].runtime_bytecode

\* a build over two names with one runtime code behind different
\* constructors, and a third name with other code
C14_Witness ==
    /\ phase = "runner"
    /\ \E n, m \in DOMAIN contracts :
          /\ n # m
          /\ addresses[n] = addresses[m]
          /\ contracts[n].bytecode # contracts[m].bytecode
    /\ \E n, m \in DOMAIN contracts : addresses[n] # addresses[m]

\* C15: after build and after every test() call that returned, the keys of
\* addresses are the keys of contracts, and no dispatch of the last test()
\* call took the missing-address branch.
C15_AddressesCoverContracts ==
    /\ phase = "runner" => DOMAIN addresses = DOMAIN contracts
    /\ lastTest.called =>
          /\ DOMAIN lastTest.addresses = DOMAIN lastTest.contracts
          /\ \A i \in DOMAIN lastTest.runs :
                lastTest.runs[i].built /\ lastTest.runs[i].err # "MissingAddress"

\* a second test() call was made on a runner built over three contracts, and
\* it dispatched all of them
C15_Witness ==
    /\ phase = "runner"
    /\ testsDone = 2
    /\ Cardinality(DOMAIN contracts) = 3
    /\ Len(lastTest.runs) = 3

\* what a test() call shows: whether it returned, and for every contract of
\* the returned map the (function, success, reason) of each of its results
Verdicts(d) ==
    [returned |-> d.tag # "Panic",
     results |-> IF d.tag = "Panic" THEN {}
                 ELSE {<<c[1], {<<p[1], p[2].success, p[2].reason>> : p \in c[2]}>> :
                          c \in Collect(d.runs)}]

\* C16: in every state of the runner, after build and after any earlier
\* test() calls, test(pattern) gives for every visiting order of the
\* contracts the result it gives right after build in any one order.
C16_OrderIndependent ==
    phase = "runner" =>
        \A pattern \in Patterns :
            \A first \in {Verdicts(Dispatch(BuiltEvm, contracts, addresses, fuzzer, pattern,
                                            CHOOSE o \in Perms(DOMAIN contracts) : TRUE,
                                            <<>>))} :
                \A order \in Perms(DOMAIN contracts) :
                    Verdicts(Dispatch(evm, contracts, addresses, fuzzer, pattern, order,
                                      <<>>)) = first

\* C17: no return reason satisfies both is_success and is_fail; is_success
\* holds exactly for Succeed and is_fail exactly for Revert; a direct call that
\* ended with an Error satisfies neither, and a test whose call ended with an
\* Error or Fatal reason did not pass, whether its name begins with testFail
\* or not.
C17_ExclusiveNotExhaustive ==
    /\ \A reason \in ExitReasons :
          /\ ~(is_success(reason) /\ is_fail(reason))
          /\ is_success(reason) <=> (reason.kind = "Succeed")
          /\ is_fail(reason) <=> (reason.kind = "Revert")
    /\ lastCall.done => lastCall.reason \in ExitReasons
    /\ (lastCall.done /\ lastCall.reason.kind \in {"Error", "Fatal"}) =>
          ~is_success(lastCall.reason) /\ ~is_fail(lastCall.reason)
    /\ \A p \in Recorded :
          /\ p[2].exit \in ExitReasons \cup {NotRun}
          /\ p[2].exit.kind \in {"Error", "Fatal"} =>
                ~p[2].success /\ ~Passes([name |-> p[1]], p[2].exit)

\* a test() call recorded a testFail* test and another test whose calls both
\* ended with an Error
C17_Witness ==
    /\ \E p \in Recorded : BeginsWithTestFail(p[1]) /\ p[2].exit.kind = "Error"
    /\ \E p \in Recorded : ~BeginsWithTestFail(p[1]) /\ p[2].exit.kind = "Error"

\* C18: the call_raw made with is_static = b returned the tag, bytes, reason
\* and gas_used, and left the adapter state, that the same call with
\* is_static = ~b returns and leaves from the same prior state.
C18_StaticFlagIgnored ==
    lastCall.done =>
        \A r \in {call_raw([gas_limit |-> evm.gas_limit, state |-> lastCall.pre],
                           lastCall.args.from, lastCall.args.to,
                           lastCall.args.calldata, lastCall.args.value,
                           ~lastCall.args.is_static)} :
            /\ r.tag = lastCall.tag
            /\ r.bytes = lastCall.bytes
            /\ r.reason = lastCall.reason
            /\ r.gas = lastCall.gas
            /\ State(r.evm) = lastCall.post

\* a call issued as static succeeded and changed the storage of its callee
C18_Witness ==
    /\ lastCall.done
    /\ lastCall.args.is_static
    /\ is_success(lastCall.reason)
    /\ lastCall.post.storage[lastCall.args.to] # lastCall.pre.storage[lastCall.args.to]

====
